---- MODULE Spec2Model ----
(***************************************************************************)
(* The graph analyzer of analyze.py: GraphAnalyzer builds a directed graph *)
(* (networkx DiGraph) from the payload of the store's /export endpoint and *)
(* answers statistics, centrality, community and shortest-path queries on  *)
(* it; main() fetches, prints the report and writes the export.            *)
(*                                                                         *)
(* Node keys are strings in the program; the model uses the integers       *)
(* 1..n for them, since only their identity matters.  Scores are rationals *)
(* <<numerator, denominator>>.                                             *)
(***************************************************************************)
EXTENDS Integers, Sequences, FiniteSets, TLC

VARIABLES
    pc,          \* where the caller stands: "start", "fetched", "reported", "done", "exited", "crashed"
    response,    \* what the store answers to GET /export (the run's input)
    graph,       \* self.graph
    fetchRet,    \* what fetch_graph returned: "True" or "False" ("none" before it returns)
    diag,        \* the diagnostic line fetch_graph printed
    exitCode,    \* the process's exit code: "0" or "1" ("none" while it runs)
    output       \* what the last call after fetch_graph returned, printed or
                 \* wrote to the export file (NoOutput if there was none)

vars == <<pc, response, graph, fetchRet, diag, exitCode, output>>

(***************************************************************************)
(* Bounds of the model and constants of the program.                       *)
(***************************************************************************)
MaxKey == 2        \* node keys 1..MaxKey in the payloads of a run of main
MaxEdges == 2      \* edge records in the payload of a run of main
MaxQueryKey == 2   \* node keys in the payloads the queries are made on
MaxQueryEdges == 3 \* edge records in those payloads
MaxDagKey == 4     \* node keys in the acyclic payloads the queries are made on
MaxDagEdges == 4   \* edge records in those payloads
MaxK == 2          \* the largest k passed to find_paths

BetweennessThreshold == 1000
TopN == 10

Range(s) == {s[i] : i \in 1..Len(s)}

NoOutput == [op |-> "none"]

(***************************************************************************)
(* The DiGraph: node holds the keys in insertion order, attr the attribute *)
(* dictionary of each node, succ the successors of each node in insertion  *)
(* order, pred the predecessors of each node in insertion order, label the *)
(* "label" attribute of each edge (its domain is the set of edges).        *)
(***************************************************************************)
EmptyAttrs == [a \in {} |-> ""]

EmptyGraph ==
    [node |-> <<>>, attr |-> [n \in {} |-> EmptyAttrs],
     succ |-> [n \in {} |-> <<>>], pred |-> [n \in {} |-> <<>>],
     label |-> [e \in {} |-> ""]]

\* the keys of G._node
Nodes(G) == DOMAIN G.attr

Edges(G) == DOMAIN G.label

NumberOfNodes(G) == Len(G.node)

\* the sum of the out-degrees of the nodes lo..hi (in halves: the sum of a
\* thousand terms is not nested a thousand deep)
RECURSIVE SumOut(_, _, _)
SumOut(G, lo, hi) ==
    IF lo > hi
    THEN 0
    ELSE IF lo = hi
         THEN Len(G.succ[G.node[lo]])
         ELSE SumOut(G, lo, (lo + hi) \div 2) + SumOut(G, (lo + hi) \div 2 + 1, hi)

\* G.number_of_edges(): the sum of the out-degrees
NumberOfEdges(G) == SumOut(G, 1, Len(G.node))

\* dict.update: the entries of new replace those of old
DictUpdate(old, new) == new @@ old

\* G.add_node(n, **props)
AddNode(G, n, props) ==
    IF n \in Nodes(G)
    THEN [G EXCEPT !.attr[n] = DictUpdate(@, props)]
    ELSE [G EXCEPT !.node = Append(@, n),
                   !.attr = @ @@ (n :> DictUpdate(EmptyAttrs, props)),
                   !.succ = @ @@ (n :> <<>>),
                   !.pred = @ @@ (n :> <<>>)]

\* Faulty variant: the endpoint of an edge loses the attributes it had
EnsureNodeResetAttrs(G, n) ==
    IF n \in Nodes(G)
    THEN [G EXCEPT !.attr[n] = EmptyAttrs]
    ELSE [G EXCEPT !.node = Append(@, n),
                   !.attr = @ @@ (n :> EmptyAttrs),
                   !.succ = @ @@ (n :> <<>>),
                   !.pred = @ @@ (n :> <<>>)]

\* the endpoint of a new edge: created with empty attributes when absent
EnsureNode(G, n) ==
    IF n \in Nodes(G)
    THEN G
    ELSE [G EXCEPT !.node = Append(@, n),
                   !.attr = @ @@ (n :> EmptyAttrs),
                   !.succ = @ @@ (n :> <<>>),
                   !.pred = @ @@ (n :> <<>>)]

\* Faulty variant: an edge that is there keeps the label it had
AddEdgeKeepFirstLabel(G, u, v, l) ==
    LET G2 == EnsureNode(EnsureNode(G, u), v)
    IN  [G2 EXCEPT !.succ[u] = IF v \in Range(@) THEN @ ELSE Append(@, v),
                   !.pred[v] = IF u \in Range(@) THEN @ ELSE Append(@, u),
                   !.label = DictUpdate(<<u, v>> :> l, @)]

\* G.add_edge(u, v, label=l)
AddEdge(G, u, v, l) ==
    LET G2 == EnsureNode(EnsureNode(G, u), v)
    IN  [G2 EXCEPT !.succ[u] = IF v \in Range(@) THEN @ ELSE Append(@, v),
                   !.pred[v] = IF u \in Range(@) THEN @ ELSE Append(@, u),
                   !.label = DictUpdate(@, <<u, v>> :> l)]

(***************************************************************************)
(* fetch_graph: the payload is a dictionary that should hold "nodes" (the  *)
(* entries of a JSON object, in order) and "edges" (a list of records with *)
(* From, To and an optional Label).                                        *)
(***************************************************************************)
\* node_data.get("props", {})
PropsOf(node_data) ==
    IF "props" \in DOMAIN node_data THEN node_data.props ELSE EmptyAttrs

\* edge.get("Label", "")
LabelOf(edge) == IF "Label" \in DOMAIN edge THEN edge.Label ELSE ""

\* for node_id, node_data in data["nodes"].items(): add_node, for the entries
\* lo..hi in their order.  The loop is cut in halves and the first half is
\* evaluated (its node count read) before the second starts, so that TLC does
\* not nest a thousand deferred calls.
RECURSIVE BuildNodes(_, _, _, _)
BuildNodes(G, items, lo, hi) ==
    IF lo > hi
    THEN G
    ELSE IF lo = hi
         THEN AddNode(G, items[lo].key, PropsOf(items[lo].value))
         ELSE LET mid == (lo + hi) \div 2
                  first == BuildNodes(G, items, lo, mid)
              IN  IF NumberOfNodes(first) >= 0
                  THEN BuildNodes(first, items, mid + 1, hi)
                  ELSE first

\* for edge in data["edges"]: add_edge; a record without From or To raises
\* KeyError before add_edge is called
RECURSIVE BuildEdges(_, _, _)
BuildEdges(G, edges, i) ==
    IF i > Len(edges)
    THEN [graph |-> G, exc |-> "none"]
    ELSE IF ~ ({"From", "To"} \subseteq DOMAIN edges[i])
         THEN [graph |-> G, exc |-> "KeyError"]
         ELSE BuildEdges(AddEdge(G, edges[i].From, edges[i].To, LabelOf(edges[i])),
                         edges, i + 1)

\* the body of the try block: the request, then the two loops
TryFetch(G, resp) ==
    IF resp.kind # "ok"
    THEN [graph |-> G, exc |-> resp.kind]
    ELSE IF "nodes" \notin DOMAIN resp.data
         THEN [graph |-> G, exc |-> "KeyError"]
         ELSE LET G1 == BuildNodes(G, resp.data.nodes, 1, Len(resp.data.nodes))
              IN  IF "edges" \notin DOMAIN resp.data
                  THEN [graph |-> G1, exc |-> "KeyError"]
                  ELSE BuildEdges(G1, resp.data.edges, 1)

\* Faulty variant: no clause for the other exceptions: they propagate
ExceptPropagate(exc) ==
    CASE exc = "ConnectionError" -> [caught |-> TRUE, diag |-> "cannot_connect"]
      [] exc = "Timeout" -> [caught |-> TRUE, diag |-> "timed_out"]
      [] OTHER -> [caught |-> FALSE, diag |-> "none"]

\* the except clauses: which exceptions are caught, and what is printed
ExceptClause(exc) ==
    CASE exc = "ConnectionError" -> [caught |-> TRUE, diag |-> "cannot_connect"]
      [] exc = "Timeout" -> [caught |-> TRUE, diag |-> "timed_out"]
      [] OTHER -> [caught |-> TRUE, diag |-> "error_fetching"]

(***************************************************************************)
(* The inputs: what the store may answer.                                  *)
(***************************************************************************)
SeqsUpTo(S, n) == UNION {[1..k -> S] : k \in 0..n}

\* a node's entry: with props, or without the key
NodeDatas == {[props |-> [a \in {"name"} |-> "x"]], EmptyAttrs}

\* the entries of a JSON object: distinct keys; the keys 1..d are declared
NodeItems(maxKey) ==
    UNION {{[i \in 1..d |-> [key |-> i, value |-> f[i]]] : f \in [1..d -> NodeDatas]}
            : d \in 0..maxKey}

EdgeRecords(maxKey) ==
    [From : 1..maxKey, To : 1..maxKey, Label : {"knows"}]
        \cup [From : 1..maxKey, To : 1..maxKey]
        \cup {[To |-> 1], [From |-> 1, Label |-> "knows"]}

MainPayloads ==
    LET items == NodeItems(MaxKey)
        edges == SeqsUpTo(EdgeRecords(MaxKey), MaxEdges)
    IN  {[nodes |-> n, edges |-> e] : n \in items, e \in edges}
            \cup {[nodes |-> n] : n \in items}
            \cup {[edges |-> e] : e \in edges}

FailureKinds == {"ConnectionError", "Timeout", "HTTPError", "JSONDecodeError"}

MainResponses ==
    {[kind |-> "ok", data |-> d] : d \in MainPayloads}
        \cup {[kind |-> k, data |-> EmptyAttrs] : k \in FailureKinds}

(***************************************************************************)
(* The state after GraphAnalyzer(store_url) is constructed.                *)
(***************************************************************************)
InitCommon ==
    /\ pc = "start"
    /\ graph = EmptyGraph
    /\ fetchRet = "none"
    /\ diag = "none"
    /\ exitCode = "none"
    /\ output = NoOutput

Init == InitCommon /\ response \in MainResponses

\* fetch_graph()
FetchGraph ==
    /\ pc = "start"
    /\ LET t == TryFetch(graph, response)
           h == ExceptClause(t.exc)
       IN  /\ graph' = t.graph
           /\ IF t.exc = "none"
              THEN pc' = "fetched" /\ fetchRet' = "True" /\ diag' = "loaded"
              ELSE IF h.caught
                   THEN pc' = "fetched" /\ fetchRet' = "False" /\ diag' = h.diag
                   ELSE pc' = "crashed" /\ fetchRet' = "none" /\ diag' = "traceback"
    /\ UNCHANGED <<response, exitCode, output>>

\* main: if not analyzer.fetch_graph(): sys.exit(1)
MainExit ==
    /\ pc = "fetched"
    /\ fetchRet = "False"
    /\ pc' = "exited"
    /\ exitCode' = "1"
    /\ UNCHANGED <<response, graph, fetchRet, diag, output>>

(***************************************************************************)
(* The queries.                                                            *)
(***************************************************************************)
Zero == <<0, 1>>

Leq(a, b) == a[1] * b[2] <= b[1] * a[2]

\* Faulty variant: the density of an undirected graph
DensityUndirected(G) ==
    LET n == NumberOfNodes(G)
        m == NumberOfEdges(G)
    IN  IF m = 0 \/ n <= 1 THEN Zero ELSE <<2 * m, n * (n - 1)>>

\* nx.density(G), for a directed graph
Density(G) ==
    LET n == NumberOfNodes(G)
        m == NumberOfEdges(G)
    IN  IF m = 0 \/ n <= 1 THEN Zero ELSE <<m, n * (n - 1)>>

Neighbours(G, S) ==
    UNION {Range(G.succ[v]) \cup Range(G.pred[v]) : v \in S}

RECURSIVE WeakComponent(_, _)
WeakComponent(G, seen) ==
    LET more == seen \cup Neighbours(G, seen)
    IN  IF more = seen THEN seen ELSE WeakComponent(G, more)

\* nx.is_weakly_connected(G): the component of the first node is the graph
IsWeaklyConnected(G) == WeakComponent(G, {G.node[1]}) = Nodes(G)

\* basic_stats()
BasicStatsOf(G) ==
    [nodes |-> NumberOfNodes(G),
     edges |-> NumberOfEdges(G),
     density |-> Density(G),
     is_connected |-> IF NumberOfNodes(G) > 0 THEN IsWeaklyConnected(G) ELSE FALSE]

InDegree(G, v) == Len(G.pred[v])

OutDegree(G, v) == Len(G.succ[v])

\* G.degree() of a DiGraph
Degree(G, v) == InDegree(G, v) + OutDegree(G, v)

\* Faulty variant: normalised by the number of nodes
DegreeCentralityByN(G) ==
    IF NumberOfNodes(G) <= 1
    THEN [v \in Nodes(G) |-> <<1, 1>>]
    ELSE [v \in Nodes(G) |-> <<Degree(G, v), NumberOfNodes(G)>>]

\* nx.degree_centrality(G)
DegreeCentrality(G) ==
    IF NumberOfNodes(G) <= 1
    THEN [v \in Nodes(G) |-> <<1, 1>>]
    ELSE [v \in Nodes(G) |-> <<Degree(G, v), NumberOfNodes(G) - 1>>]

RECURSIVE FirstWith(_, _, _, _)
FirstWith(order, score, best, i) ==
    IF score[order[i]] = best THEN i ELSE FirstWith(order, score, best, i + 1)

Without(order, i) == SubSeq(order, 1, i - 1) \o SubSeq(order, i + 1, Len(order))

\* sorted(score.items(), key=lambda x: -x[1])[:k]: a stable sort on the
\* insertion order, largest score first
RECURSIVE Ranking(_, _, _)
Ranking(order, score, k) ==
    IF k = 0 \/ order = <<>>
    THEN <<>>
    ELSE LET vals == {score[order[i]] : i \in 1..Len(order)}
             best == CHOOSE x \in vals : \A y \in vals : Leq(y, x)
             i == FirstWith(order, score, best, 1)
         IN  <<(<<order[i], best>>)>> \o Ranking(Without(order, i), score, k - 1)

\* Faulty variant: the threshold itself still computes betweenness
BetweennessComputedInclusive(G) == NumberOfNodes(G) <= BetweennessThreshold

\* if self.graph.number_of_nodes() < 1000
BetweennessComputed(G) == NumberOfNodes(G) < BetweennessThreshold

\* the same, of integer scores
IntRanking(order, score, k) ==
    LET r == Ranking(order, [v \in DOMAIN score |-> <<score[v], 1>>], k)
    IN  [i \in 1..Len(r) |-> <<r[i][1], r[i][2][1]>>]

\* centrality_analysis(): keys holds the keys of the returned dictionary other
\* than "pagerank", which is there when nx.pagerank succeeds; the scores of
\* betweenness are the library's and are not modelled
CentralityOf(G) ==
    IF NumberOfNodes(G) = 0
    THEN [keys |-> {}, degree |-> <<>>, in_degree |-> <<>>, out_degree |-> <<>>]
    ELSE [keys |-> {"degree", "in_degree", "out_degree"}
                    \cup (IF BetweennessComputed(G) THEN {"betweenness"} ELSE {}),
          degree |-> Ranking(G.node, DegreeCentrality(G), TopN),
          in_degree |-> IntRanking(G.node, [v \in Nodes(G) |-> InDegree(G, v)], TopN),
          out_degree |-> IntRanking(G.node, [v \in Nodes(G) |-> OutDegree(G, v)], TopN)]

\* G.to_undirected(): a new graph with the same nodes and an undirected edge
\* for each edge
ToUndirected(G) ==
    [node |-> G.node, edge |-> {{e[1], e[2]} : e \in Edges(G)}]

\* Faulty variant: the graph itself is made undirected: every edge gets its reverse
RECURSIVE AddReverses(_, _, _)
AddReverses(G, es, i) ==
    IF i > Len(es)
    THEN G
    ELSE AddReverses(IF <<es[i][2], es[i][1]>> \in Edges(G)
                     THEN G
                     ELSE AddEdge(G, es[i][2], es[i][1], G.label[es[i]]),
                     es, i + 1)

RECURSIVE EdgeSeq(_)
EdgeSeq(S) ==
    IF S = {} THEN <<>> ELSE LET e == CHOOSE x \in S : TRUE IN <<e>> \o EdgeSeq(S \ {e})

GraphMadeUndirected(G) == AddReverses(G, EdgeSeq(Edges(G)), 1)

\* self.graph after community_detection: to_undirected() builds a copy, and
\* nothing is done on an empty graph
GraphAfterCommunityDetection(G) == G

\* community_detection(): the partition is the library's; the model holds the
\* undirected copy it is computed from
CommunitiesOf(G) ==
    IF NumberOfNodes(G) = 0
    THEN <<>>
    ELSE [greedy_modularity_communities |-> ToUndirected(G)]

(***************************************************************************)
(* find_paths: nx.all_shortest_paths runs nx.predecessor, a breadth-first  *)
(* search from source that records for each node its predecessors on the   *)
(* shortest paths, and unwinds them from target.                           *)
(***************************************************************************)
\* Faulty variant: the search follows the edges backwards
RECURSIVE LevelPairsBackwards(_, _, _)
LevelPairsBackwards(G, thislevel, i) ==
    IF i > Len(thislevel)
    THEN <<>>
    ELSE LET v == thislevel[i]
         IN  [j \in 1..Len(G.pred[v]) |-> <<v, G.pred[v][j]>>]
                 \o LevelPairsBackwards(G, thislevel, i + 1)

\* the pairs (v, w) of "for v in thislevel: for w in G[v]", in that order
RECURSIVE LevelPairs(_, _, _)
LevelPairs(G, thislevel, i) ==
    IF i > Len(thislevel)
    THEN <<>>
    ELSE LET v == thislevel[i]
         IN  [j \in 1..Len(G.succ[v]) |-> <<v, G.succ[v][j]>>]
                 \o LevelPairs(G, thislevel, i + 1)

\* the body of that loop: a new node gets its level and first predecessor,
\* a node of this level one more predecessor
RECURSIVE ScanLevel(_, _, _, _)
ScanLevel(pairs, i, level, st) ==
    IF i > Len(pairs)
    THEN st
    ELSE LET v == pairs[i][1]
             w == pairs[i][2]
         IN  IF w \notin DOMAIN st.seen
             THEN ScanLevel(pairs, i + 1, level,
                            [seen |-> st.seen @@ (w :> level),
                             pred |-> st.pred @@ (w :> <<v>>),
                             nextlevel |-> Append(st.nextlevel, w)])
             ELSE IF st.seen[w] = level
                  THEN ScanLevel(pairs, i + 1, level,
                                 [st EXCEPT !.pred[w] = Append(@, v)])
                  ELSE ScanLevel(pairs, i + 1, level, st)

RECURSIVE PredLevels(_, _, _)
PredLevels(G, level, st) ==
    IF st.nextlevel = <<>>
    THEN st.pred
    ELSE PredLevels(G, level + 1,
                    ScanLevel(LevelPairs(G, st.nextlevel, 1), 1, level + 1,
                              [st EXCEPT !.nextlevel = <<>>]))

\* nx.predecessor(G, source)
Predecessor(G, source) ==
    PredLevels(G, 0, [seen |-> (source :> 0), pred |-> (source :> <<>>),
                      nextlevel |-> <<source>>])

RECURSIVE PathsFrom(_, _, _)
RECURSIVE PathsVia(_, _, _, _)
\* _build_paths_from_predecessors: the paths from source to node, those through
\* the first predecessor first
PathsFrom(pred, source, node) ==
    IF node = source
    THEN <<(<<source>>)>>
    ELSE PathsVia(pred, source, node, 1)

PathsVia(pred, source, node, i) ==
    IF i > Len(pred[node])
    THEN <<>>
    ELSE LET ps == PathsFrom(pred, source, pred[node][i])
         IN  [j \in 1..Len(ps) |-> Append(ps[j], node)]
                 \o PathsVia(pred, source, node, i + 1)

\* nx.all_shortest_paths(G, source, target), listed
AllShortestPaths(G, source, target) ==
    IF source \notin Nodes(G)
    THEN [exc |-> "NodeNotFound", paths |-> <<>>]
    ELSE LET pred == Predecessor(G, source)
         IN  IF target \notin DOMAIN pred
             THEN [exc |-> "NetworkXNoPath", paths |-> <<>>]
             ELSE [exc |-> "none", paths |-> PathsFrom(pred, source, target)]

\* Faulty variant: one path too many
SliceInclusive(paths, k) ==
    IF k >= 0
    THEN SubSeq(paths, 1, IF k + 1 < Len(paths) THEN k + 1 ELSE Len(paths))
    ELSE SubSeq(paths, 1, IF Len(paths) + k > 0 THEN Len(paths) + k ELSE 0)

\* paths[:k]
Slice(paths, k) ==
    IF k >= 0
    THEN SubSeq(paths, 1, IF k < Len(paths) THEN k ELSE Len(paths))
    ELSE SubSeq(paths, 1, IF Len(paths) + k > 0 THEN Len(paths) + k ELSE 0)

\* find_paths(source, target, k)
FindPathsOf(G, source, target, k) ==
    LET r == AllShortestPaths(G, source, target)
    IN  IF r.exc = "none" THEN Slice(r.paths, k) ELSE <<>>

\* float(val) for val in a ranking of integers
FloatOfInt(ranking) ==
    [i \in 1..Len(ranking) |-> <<ranking[i][1], <<ranking[i][2], 1>> >>]

\* what export_analysis writes (float of a float is the same float)
AnalysisOf(G) ==
    LET c == CentralityOf(G)
        communities == CommunitiesOf(G)
    IN  [statistics |-> BasicStatsOf(G),
         centrality |-> [keys |-> c.keys, degree |-> c.degree,
                         in_degree |-> FloatOfInt(c.in_degree),
                         out_degree |-> FloatOfInt(c.out_degree)],
         communities |-> communities]

\* what print_report prints
ReportOf(G) ==
    LET stats == BasicStatsOf(G)
        c == CentralityOf(G)
    IN  IF stats.nodes = 0
        THEN [stats |-> stats, sections |-> {"empty_notice"}, degree |-> <<>>]
        ELSE [stats |-> stats,
              sections |-> (c.keys \cap {"degree"})
                              \cup (IF CommunitiesOf(G) # <<>> THEN {"communities"} ELSE {}),
              degree |-> c.degree]

\* self.graph after print_report: community_detection is not reached on an
\* empty graph
GraphAfterPrintReport(G) ==
    IF NumberOfNodes(G) = 0 THEN G ELSE GraphAfterCommunityDetection(G)

(***************************************************************************)
(* main(), after fetch_graph.                                              *)
(***************************************************************************)
\* Faulty variant: the report is printed whatever fetch_graph returned
MainPrintReportUnchecked ==
    /\ pc = "fetched"
    /\ output' = [op |-> "print_report", value |-> ReportOf(graph)]
    /\ graph' = GraphAfterPrintReport(graph)
    /\ pc' = "reported"
    /\ UNCHANGED <<response, fetchRet, diag, exitCode>>

\* analyzer.print_report()
MainPrintReport ==
    /\ pc = "fetched"
    /\ fetchRet = "True"
    /\ output' = [op |-> "print_report", value |-> ReportOf(graph)]
    /\ graph' = GraphAfterPrintReport(graph)
    /\ pc' = "reported"
    /\ UNCHANGED <<response, fetchRet, diag, exitCode>>

\* analyzer.export_analysis(), and the end of the run
MainExportAnalysis ==
    /\ pc = "reported"
    /\ output' = [op |-> "export_analysis", value |-> AnalysisOf(graph)]
    /\ graph' = GraphAfterCommunityDetection(graph)
    /\ pc' = "done"
    /\ exitCode' = "0"
    /\ UNCHANGED <<response, fetchRet, diag>>

Next == FetchGraph \/ MainExit \/ MainPrintReport \/ MainExportAnalysis

Spec == Init /\ [][Next]_vars

(***************************************************************************)
(* The analyzer used as a library: after fetch_graph has returned True,    *)
(* any of its queries, in any order.                                       *)
(***************************************************************************)
\* a node declared without props
Declared(d) == [i \in 1..d |-> [key |-> i, value |-> EmptyAttrs]]

Pairs(maxKey) == (1..maxKey) \X (1..maxKey)

ForwardPairs(maxKey) == {e \in Pairs(maxKey) : e[1] < e[2]}

PairLess(a, b) == a[1] < b[1] \/ (a[1] = b[1] /\ a[2] < b[2])

\* the lists of at most n distinct pairs of S, each in increasing order
RECURSIVE SortedSeq(_)
SortedSeq(S) ==
    IF S = {}
    THEN <<>>
    ELSE LET m == CHOOSE x \in S : \A y \in S : x = y \/ PairLess(x, y)
         IN  <<m>> \o SortedSeq(S \ {m})

EdgeLists(S, n) ==
    {[i \in 1..Len(SortedSeq(T)) |-> [From |-> SortedSeq(T)[i][1], To |-> SortedSeq(T)[i][2]]]
        : T \in {T \in SUBSET S : Cardinality(T) <= n}}

QueryPayloads ==
    {[nodes |-> Declared(d), edges |-> e]
        : d \in {0, MaxQueryKey}, e \in EdgeLists(Pairs(MaxQueryKey), MaxQueryEdges)}
    \cup {[nodes |-> Declared(0), edges |-> e]
            : e \in EdgeLists(ForwardPairs(MaxDagKey), MaxDagEdges)}
    \cup {[nodes |-> Declared(n), edges |-> <<>>]
            : n \in (BetweennessThreshold - 1)..(BetweennessThreshold + 1)}

InitQuery ==
    /\ InitCommon
    /\ response \in {[kind |-> "ok", data |-> d] : d \in QueryPayloads}

Built == pc = "fetched" /\ fetchRet = "True"

\* basic_stats()
BasicStats ==
    /\ Built
    /\ output' = [op |-> "basic_stats", value |-> BasicStatsOf(graph)]
    /\ UNCHANGED <<pc, response, graph, fetchRet, diag, exitCode>>

\* centrality_analysis()
CentralityAnalysis ==
    /\ Built
    /\ output' = [op |-> "centrality_analysis", value |-> CentralityOf(graph)]
    /\ UNCHANGED <<pc, response, graph, fetchRet, diag, exitCode>>

\* community_detection()
CommunityDetection ==
    /\ Built
    /\ output' = [op |-> "community_detection", value |-> CommunitiesOf(graph)]
    /\ graph' = GraphAfterCommunityDetection(graph)
    /\ UNCHANGED <<pc, response, fetchRet, diag, exitCode>>

\* a key no payload holds
UnknownKey == MaxDagKey + 1

\* the endpoints asked for: from node 1 to itself, to node 2, to the last key
\* and to a key no payload holds, and from such a key
PathQueries ==
    {<<1, t>> : t \in {1, 2, MaxDagKey, UnknownKey}} \cup {<<UnknownKey, 1>>}

\* find_paths(source, target, k)
FindPaths ==
    /\ Built
    /\ \E q \in PathQueries, k \in (-1)..MaxK :
          output' = [op |-> "find_paths", source |-> q[1], target |-> q[2],
                     k |-> k, value |-> FindPathsOf(graph, q[1], q[2], k)]
    /\ UNCHANGED <<pc, response, graph, fetchRet, diag, exitCode>>

\* print_report()
PrintReport ==
    /\ Built
    /\ output' = [op |-> "print_report", value |-> ReportOf(graph)]
    /\ graph' = GraphAfterPrintReport(graph)
    /\ UNCHANGED <<pc, response, fetchRet, diag, exitCode>>

\* export_analysis()
ExportAnalysis ==
    /\ Built
    /\ output' = [op |-> "export_analysis", value |-> AnalysisOf(graph)]
    /\ graph' = GraphAfterCommunityDetection(graph)
    /\ UNCHANGED <<pc, response, fetchRet, diag, exitCode>>

NextQuery ==
    \/ FetchGraph
    \/ BasicStats
    \/ CentralityAnalysis
    \/ CommunityDetection
    \/ FindPaths
    \/ PrintReport
    \/ ExportAnalysis

SpecQuery == InitQuery /\ [][NextQuery]_vars

(***************************************************************************)
(* What the payload says, read from the payload alone.                     *)
(***************************************************************************)
HasShape(resp) == resp.kind = "ok" /\ {"nodes", "edges"} \subseteq DOMAIN resp.data

WellFormed(resp) ==
    /\ HasShape(resp)
    /\ \A i \in 1..Len(resp.data.edges) : {"From", "To"} \subseteq DOMAIN resp.data.edges[i]

\* a top-level key is missing, or an edge record lacks From or To
Malformed(resp) == resp.kind = "ok" /\ ~ WellFormed(resp)

DeclaredKeys(resp) == {resp.data.nodes[i].key : i \in 1..Len(resp.data.nodes)}

\* the number of edge records the loop gets through: all of them, or those
\* before the first one without From or To
ProcessedCount(resp) ==
    LET es == resp.data.edges
        bad == {i \in 1..Len(es) : ~ ({"From", "To"} \subseteq DOMAIN es[i])}
    IN  IF bad = {} THEN Len(es) ELSE (CHOOSE i \in bad : \A j \in bad : i <= j) - 1

PairAt(resp, i) == <<resp.data.edges[i].From, resp.data.edges[i].To>>

PayloadPairs(resp) == {PairAt(resp, i) : i \in 1..ProcessedCount(resp)}

EndpointKeys(resp) == {e[1] : e \in PayloadPairs(resp)} \cup {e[2] : e \in PayloadPairs(resp)}

PayloadNodes(resp) == DeclaredKeys(resp) \cup EndpointKeys(resp)

\* C1: for a well-formed payload, once fetch_graph has returned True the nodes
\* of the graph are the declared keys and the endpoints of the edges; an
\* endpoint that was not declared has no attributes and a declared node has
\* exactly its declared props.
C1_NodesAreDeclaredAndEndpoints ==
    (fetchRet = "True" /\ WellFormed(response)) =>
        /\ Nodes(graph) = PayloadNodes(response)
        /\ Range(graph.node) = PayloadNodes(response)
        /\ Len(graph.node) = Cardinality(PayloadNodes(response))
        /\ \A n \in EndpointKeys(response) \ DeclaredKeys(response) :
                DOMAIN graph.attr[n] = {}
        /\ \A i \in 1..Len(response.data.nodes) :
                LET item == response.data.nodes[i]
                IN  graph.attr[item.key] =
                        (IF "props" \in DOMAIN item.value THEN item.value.props ELSE EmptyAttrs)

\* an edge runs from an undeclared key to a declared node that has props
C1_Witness ==
    /\ fetchRet = "True"
    /\ WellFormed(response)
    /\ \E e \in PayloadPairs(response) :
          /\ e[1] \notin DeclaredKeys(response)
          /\ e[2] \in DeclaredKeys(response)
          /\ DOMAIN graph.attr[e[2]] # {}

\* C2: the graph holds one edge for each distinct ordered pair among the edge
\* records fetch_graph got through, and the label of a pair is that of its
\* last record, the empty string when that record has no Label.
C2_OneEdgePerPairLastLabel ==
    (fetchRet # "none" /\ HasShape(response)) =>
        /\ Edges(graph) = PayloadPairs(response)
        /\ NumberOfEdges(graph) = Cardinality(PayloadPairs(response))
        /\ \A i \in 1..ProcessedCount(response) :
              (\A j \in (i + 1)..ProcessedCount(response) : PairAt(response, j) # PairAt(response, i))
                  => graph.label[PairAt(response, i)] =
                        (IF "Label" \in DOMAIN response.data.edges[i]
                         THEN response.data.edges[i].Label ELSE "")

\* two records of one pair, the first with a Label and the second without
C2_Witness ==
    /\ fetchRet = "True"
    /\ HasShape(response)
    /\ Len(response.data.edges) = 2
    /\ PairAt(response, 1) = PairAt(response, 2)
    /\ "Label" \in DOMAIN response.data.edges[1]
    /\ "Label" \notin DOMAIN response.data.edges[2]
    /\ NumberOfEdges(graph) = 1
    /\ graph.label[PairAt(response, 1)] = ""

\* C3 as stated: a malformed payload makes fetch_graph end in an unhandled
\* fault, not in a return of False.
C3_MalformedPropagates ==
    (pc # "start" /\ Malformed(response)) => (pc = "crashed" /\ fetchRet # "False")

\* C3, amended: a malformed payload is caught by the last except clause:
\* fetch_graph prints the generic diagnostic and returns False, as for any
\* other failure of the fetch, and main exits with code 1.
C3_MalformedReturnsFalse ==
    (pc # "start" /\ Malformed(response)) =>
        /\ fetchRet = "False"
        /\ diag = "error_fetching"
        /\ pc \in {"fetched", "exited"}
        /\ (pc = "exited" => exitCode = "1")

\* the payload has no "edges": the run has exited with code 1
C3_Witness ==
    /\ Malformed(response)
    /\ "edges" \notin DOMAIN response.data
    /\ pc = "exited"
    /\ exitCode = "1"

\* C10: print_report and export_analysis run only after fetch_graph returned
\* True, the report first; when fetch_graph returns False, also with nodes or
\* edges already in the graph, the only step left is the exit with code 1,
\* and nothing is printed or written.
C10_ReportOnlyAfterFetch ==
    [][/\ (output' # output) =>
              /\ fetchRet = "True"
              /\ \/ output = NoOutput /\ output'.op = "print_report" /\ pc' = "reported"
                 \/ /\ output # NoOutput
                    /\ output.op = "print_report"
                    /\ output'.op = "export_analysis"
                    /\ pc' = "done"
                    /\ exitCode' = "0"
       /\ (fetchRet = "False") =>
              (pc' = "exited" /\ exitCode' = "1" /\ output' = NoOutput /\ output = NoOutput)
       /\ (exitCode' = "0") => (fetchRet = "True" /\ output'.op = "export_analysis")
       /\ (pc = "start") => (pc' = "fetched" /\ fetchRet' \in {"True", "False"} /\ output' = NoOutput)
      ]_vars

\* the fetch failed with nodes already in the graph, and the run has exited
C10_Witness ==
    /\ pc = "exited"
    /\ exitCode = "1"
    /\ fetchRet = "False"
    /\ NumberOfNodes(graph) > 0
    /\ output = NoOutput

(***************************************************************************)
(* The graph of the payload, as a set of nodes and a set of ordered pairs. *)
(***************************************************************************)
SelfLoopFree(resp) == \A e \in PayloadPairs(resp) : e[1] # e[2]

InDegreeIn(resp, v) == Cardinality({e \in PayloadPairs(resp) : e[2] = v})

OutDegreeIn(resp, v) == Cardinality({e \in PayloadPairs(resp) : e[1] = v})

NoPath == 0 - 1

\* the least number of edges of a directed walk from a node of seen to t, d
\* being the number of edges already walked; NoPath when there is none
RECURSIVE DistanceFrom(_, _, _, _)
DistanceFrom(pairs, seen, t, d) ==
    IF t \in seen
    THEN d
    ELSE LET more == seen \cup {e[2] : e \in {x \in pairs : x[1] \in seen}}
         IN  IF more = seen THEN NoPath ELSE DistanceFrom(pairs, more, t, d + 1)

Distance(resp, s, t) ==
    IF s \in PayloadNodes(resp) /\ t \in PayloadNodes(resp)
    THEN DistanceFrom(PayloadPairs(resp), {s}, t, 0)
    ELSE NoPath

\* C4 as stated: the density is at most 1, self-loops or not, and 0 below
\* two nodes.
C4_DensityAtMostOne ==
    (output.op = "basic_stats") =>
        /\ Leq(Zero, output.value.density)
        /\ Leq(output.value.density, <<1, 1>>)
        /\ output.value.edges <= output.value.nodes * (output.value.nodes - 1)
        /\ (output.value.nodes < 2 => output.value.density[1] = 0)

\* C4, amended: the density is edge_count / (n * (n - 1)) for n >= 2 nodes and
\* 0 below two nodes; it lies in [0, 1] when no edge record is a self-loop
\* (with self-loops edge_count can reach n * n and the density exceed 1).
C4_DensityWithoutSelfLoops ==
    (output.op = "basic_stats") =>
        LET n == Cardinality(PayloadNodes(response))
            m == Cardinality(PayloadPairs(response))
            dens == output.value.density
        IN  /\ output.value.nodes = n
            /\ output.value.edges = m
            /\ dens[2] > 0
            /\ dens[1] >= 0
            /\ (n < 2 => dens[1] = 0)
            /\ (n >= 2 => dens[1] * (n * (n - 1)) = m * dens[2])
            /\ m <= n * n
            /\ SelfLoopFree(response) => (dens[1] <= dens[2] /\ m <= n * (n - 1))

\* every ordered pair of two nodes is an edge: the density is 1
C4_Witness ==
    /\ output.op = "basic_stats"
    /\ SelfLoopFree(response)
    /\ output.value.nodes = 2
    /\ output.value.edges = 2
    /\ output.value.density[1] = output.value.density[2]

\* C5 as stated: the score is (in + out) / (n - 1) for n > 1 and 0 for the
\* node of a one-node graph.
C5_DegreeScoreZeroForOneNode ==
    (output.op = "centrality_analysis") =>
        LET n == Cardinality(PayloadNodes(response))
        IN  \A i \in 1..Len(output.value.degree) :
                LET v == output.value.degree[i][1]
                    score == output.value.degree[i][2]
                IN  /\ (n > 1) =>
                          score[1] * (n - 1) =
                              (InDegreeIn(response, v) + OutDegreeIn(response, v)) * score[2]
                    /\ (n = 1) => score[1] = 0

\* C5, amended: the score is (in + out) / (n - 1) for n > 1, and 1 for the
\* node of a one-node graph (with or without a self-loop).
C5_DegreeScore ==
    (output.op = "centrality_analysis") =>
        LET n == Cardinality(PayloadNodes(response))
            ranking == output.value.degree
        IN  /\ Len(ranking) = (IF n < TopN THEN n ELSE TopN)
            /\ \A i \in 1..Len(ranking) :
                  LET v == ranking[i][1]
                      score == ranking[i][2]
                  IN  /\ v \in PayloadNodes(response)
                      /\ score[2] > 0
                      /\ (n > 1) =>
                            score[1] * (n - 1) =
                                (InDegreeIn(response, v) + OutDegreeIn(response, v)) * score[2]
                      /\ (n = 1) => score[1] = score[2]

\* a node with an edge in and an edge out, in a graph of several nodes
C5_Witness ==
    /\ output.op = "centrality_analysis"
    /\ Cardinality(PayloadNodes(response)) > 2
    /\ \E i \in 1..Len(output.value.degree) :
          /\ InDegreeIn(response, output.value.degree[i][1]) > 0
          /\ OutDegreeIn(response, output.value.degree[i][1]) > 0
          /\ output.value.degree[i][2][1] = 2

\* C6 as stated: for every graph, "betweenness" is a key of the result exactly
\* when node_count < 1000, and the degree rankings are there above it.
C6_BetweennessIffBelowThreshold ==
    (output.op = "centrality_analysis") =>
        LET n == Cardinality(PayloadNodes(response))
        IN  /\ ("betweenness" \in output.value.keys) <=> (n < BetweennessThreshold)
            /\ (n >= BetweennessThreshold) =>
                  {"degree", "in_degree", "out_degree"} \subseteq output.value.keys

\* C6, amended: "betweenness" is a key of the result exactly when
\* 1 <= node_count < 1000; the result of an empty graph has no key at all,
\* and that of any other graph has degree, in_degree and out_degree.
C6_BetweennessIffNonEmptyBelowThreshold ==
    (output.op = "centrality_analysis") =>
        LET n == Cardinality(PayloadNodes(response))
        IN  /\ ("betweenness" \in output.value.keys) <=> (1 <= n /\ n < BetweennessThreshold)
            /\ (n >= 1) => {"degree", "in_degree", "out_degree"} \subseteq output.value.keys
            /\ (n = 0) => output.value.keys = {}

\* a graph of 1000 nodes or more: no betweenness, the degree rankings there
C6_Witness ==
    /\ output.op = "centrality_analysis"
    /\ Cardinality(PayloadNodes(response)) >= BetweennessThreshold
    /\ "betweenness" \notin output.value.keys
    /\ {"degree", "in_degree", "out_degree"} \subseteq output.value.keys
    /\ Len(output.value.degree) = TopN

\* C7: for k >= 1, every path find_paths returns starts at source, ends at
\* target, follows the edges and has as many edges as the shortest directed
\* distance; the result is empty exactly when source or target is not a node
\* or target cannot be reached from source.
C7_ShortestPaths ==
    (output.op = "find_paths" /\ output.k >= 1) =>
        LET d == Distance(response, output.source, output.target)
            paths == output.value
        IN  /\ \A i \in 1..Len(paths) :
                  /\ Len(paths[i]) >= 1
                  /\ paths[i][1] = output.source
                  /\ paths[i][Len(paths[i])] = output.target
                  /\ \A j \in 1..(Len(paths[i]) - 1) :
                        <<paths[i][j], paths[i][j + 1]>> \in PayloadPairs(response)
                  /\ Len(paths[i]) - 1 = d
            /\ (paths = <<>>) <=>
                  \/ output.source \notin PayloadNodes(response)
                  \/ output.target \notin PayloadNodes(response)
                  \/ d = NoPath

\* two different shortest paths of two edges are returned
C7_Witness ==
    /\ output.op = "find_paths"
    /\ output.k >= 2
    /\ Len(output.value) = 2
    /\ output.value[1] # output.value[2]
    /\ Len(output.value[1]) = 3

\* C8 as stated: for every integer k, at most k paths are returned.
C8_AtMostKForEveryK ==
    (output.op = "find_paths") => Len(output.value) <= output.k

\* C8, amended: for every k >= 0, at most k paths are returned (for k < 0 the
\* slice paths[:k] drops the last -k paths, and what is left cannot be fewer
\* than 0 paths).
C8_AtMostKForNonNegativeK ==
    (output.op = "find_paths" /\ output.k >= 0) => Len(output.value) <= output.k

\* there are two shortest paths from source to target, and k = 1 keeps one
C8_Witness ==
    /\ output.op = "find_paths"
    /\ output.k = 1
    /\ Len(output.value) = 1
    /\ Len(output.value[1]) = 3
    /\ \E a \in PayloadNodes(response), b \in PayloadNodes(response) :
          /\ a # b
          /\ {<<output.source, a>>, <<a, output.target>>,
              <<output.source, b>>, <<b, output.target>>} \subseteq PayloadPairs(response)
          /\ <<output.source, output.target>> \notin PayloadPairs(response)
          /\ output.source # output.target

\* what a query returns, prints or writes on the graph G
ValueOn(G, call) ==
    CASE call.op = "basic_stats" -> BasicStatsOf(G)
      [] call.op = "centrality_analysis" -> CentralityOf(G)
      [] call.op = "community_detection" -> CommunitiesOf(G)
      [] call.op = "find_paths" -> FindPathsOf(G, call.source, call.target, call.k)
      [] call.op = "print_report" -> ReportOf(G)
      [] call.op = "export_analysis" -> AnalysisOf(G)

====
